---- MODULE Spec2Model ----
(***************************************************************************)
(* Model of scripts/pm_slack_bridge.py: the app_mention handler of the     *)
(* Slack bridge, run as cooperative tasks on one asyncio event loop.       *)
(*                                                                         *)
(* Each handler execution is a task.  A task gives the loop back only at   *)
(* an await (the two   say() sends and files_upload); the agent call       *)
(* pm_agent.initiate_chat is a plain synchronous call, so the task keeps   *)
(* the loop's only thread for as long as that call lasts.                  *)
(***************************************************************************)
EXTENDS Naturals, Sequences, FiniteSets

(* ---------------------------- bounds ----------------------------------- *)
MaxEvents == 2

Events == 1..MaxEvents

(* ------------------------ input domains -------------------------------- *)
Texts == {"draft spec"}
Users == {"U1", "U2"}
Summaries == {"## A", "## B"}
AgentErrors == {"timeout"}
UploadErrors == {"upload_failed"}
TmpOutcomes == {"ok", "create_err", "write_err"}
Channels == {"#build-bot", "#specs"}

EmptyPayload == [x \in {} |-> "-"]

(* body["event"] of an app_mention envelope; the handler indexes "text"    *)
(* and "user", either of which may be missing.                             *)
EventPayloads ==
  {[text |-> t, user |-> u] : t \in Texts, u \in Users}
    \cup {[text |-> t] : t \in Texts}
    \cup {[user |-> u] : u \in Users}
    \cup {EmptyPayload}

Bodies == {[event |-> p] : p \in EventPayloads}

(* ------------------------ program constants ---------------------------- *)
MaxTurns == 4

Title == "spec.md"

Comment == "Here is the generated spec.md :page_facing_up:"

(* The advisory text; its code-quoted part is the middle piece.            *)
HaltMsg == <<":octagonal_sign: Pipeline halted (", "HALT_PIPELINE=true", ").">>

(* Faulty variants of the message formats and upload arguments carry the   *)
(* suffix after the underscore.                                            *)
AckMsg_NoUser(user) == <<":seedling: Working on spec ...">>

AckMsg(user) == <<":seedling: Working on spec for <@", user, "> ...">>

ErrMsg_Generic(d) == <<":x: Error generating spec">>

ErrMsg(d) == <<":x: Error generating spec: ", d>>

ErrorLog(d) == <<"Error: ", d>>

InfoLog == <<"spec.md uploaded.">>

UploadArgs_FileAsTitle(ch) == <<ch, "tmp.md", Comment>>

UploadArgs(ch) == <<ch, Title, Comment>>

(* ------------------------------ state ---------------------------------- *)
VARIABLES
  HALT,      \* module-level flag, read from the environment at import
  CHANNEL,   \* module-level upload destination
  body,      \* body[e]: the envelope handed to the e-th handler execution
  pc,        \* pc[e]: where the e-th handler execution is
  calls,     \* calls[e]: the external calls it has issued, in order
  files,     \* temporary files on disk: files[name] is the content
  uploaded,  \* files posted by the upload sink, in order
  running    \* the task inside a synchronous agent call (0: loop is free)

vars == <<HALT, CHANNEL, body, pc, calls, files, uploaded, running>>

Call(op, msg, file, st, res) ==
  [op |-> op, msg |-> msg, file |-> file, st |-> st, res |-> res]

Last(s) == s[Len(s)]

SetLast(s, st, res) ==
  [s EXCEPT ![Len(s)] = [@ EXCEPT !.st = st, !.res = res]]

Init ==
  /\ HALT \in BOOLEAN
  /\ CHANNEL \in Channels
  /\ body = [e \in Events |-> [event |-> EmptyPayload]]
  /\ pc = [e \in Events |-> "none"]
  /\ calls = [e \in Events |-> << >>]
  /\ files = << >>
  /\ uploaded = << >>
  /\ running = 0

(* ----------------------------- actions --------------------------------- *)

(* The except-block: say the error text; logger.error follows the await.   *)
EnterExcept(e, cs, d) ==
  /\ calls' = [calls EXCEPT ![e] = Append(cs, Call("say", ErrMsg(d), 0, "pending", "-"))]
  /\ pc' = [pc EXCEPT ![e] = "err_say"]

(* Faulty variant: no halt check.                                         *)
Receive_NoHaltCheck(e, b) ==
  /\ running = 0
  /\ pc[e] = "none"
  /\ \A f \in Events : f < e => pc[f] # "none"
  /\ body' = [body EXCEPT ![e] = b]
  /\ IF ~ ({"text", "user"} \subseteq DOMAIN b.event)
       THEN /\ pc' = [pc EXCEPT ![e] = "raised"]
            /\ UNCHANGED calls
       ELSE /\ calls' = [calls EXCEPT ![e] =
                 Append(@, Call("say", AckMsg(b.event.user), 0, "pending", "-"))]
            /\ pc' = [pc EXCEPT ![e] = "ack_say"]
  /\ UNCHANGED <<HALT, CHANNEL, files, uploaded, running>>

(* A mention is dispatched: the handler runs up to its first await.        *)
Receive(e, b) ==
  /\ running = 0
  /\ pc[e] = "none"
  /\ \A f \in Events : f < e => pc[f] # "none"
  /\ body' = [body EXCEPT ![e] = b]
  /\ IF HALT
       THEN /\ calls' = [calls EXCEPT ![e] =
                 Append(@, Call("say", HaltMsg, 0, "pending", "-"))]
            /\ pc' = [pc EXCEPT ![e] = "halt_say"]
       ELSE IF ~ ({"text", "user"} \subseteq DOMAIN b.event)
         THEN /\ pc' = [pc EXCEPT ![e] = "raised"]
              /\ UNCHANGED calls
         ELSE /\ calls' = [calls EXCEPT ![e] =
                   Append(@, Call("say", AckMsg(b.event.user), 0, "pending", "-"))]
              /\ pc' = [pc EXCEPT ![e] = "ack_say"]
  /\ UNCHANGED <<HALT, CHANNEL, files, uploaded, running>>

(* The halt advisory send completes; the handler returns, or the send's    *)
(* exception leaves the handler.                                           *)
HaltSayReturn(e, ok) ==
  /\ running = 0
  /\ pc[e] = "halt_say"
  /\ calls' = [calls EXCEPT ![e] = SetLast(@, IF ok THEN "ok" ELSE "err", "-")]
  /\ pc' = [pc EXCEPT ![e] = IF ok THEN "returned" ELSE "raised"]
  /\ UNCHANGED <<HALT, CHANNEL, body, files, uploaded, running>>

(* The acknowledgment send completes.  On success the task enters the try  *)
(* block and calls the agent synchronously, holding the loop.              *)
AckSayReturn(e, ok) ==
  /\ running = 0
  /\ pc[e] = "ack_say"
  /\ IF ok
       THEN /\ calls' = [calls EXCEPT ![e] =
                 Append(SetLast(@, "ok", "-"),
                        Call("initiate_chat", <<body[e].event.text>>, MaxTurns, "pending", "-"))]
            /\ pc' = [pc EXCEPT ![e] = "in_agent"]
            /\ running' = e
       ELSE /\ calls' = [calls EXCEPT ![e] = SetLast(@, "err", "-")]
            /\ pc' = [pc EXCEPT ![e] = "raised"]
            /\ UNCHANGED running
  /\ UNCHANGED <<HALT, CHANNEL, body, files, uploaded>>

(* The agent call raises: straight to the except-block.                    *)
AgentRaises(e, d) ==
  /\ running = e
  /\ pc[e] = "in_agent"
  /\ EnterExcept(e, SetLast(calls[e], "err", d), d)
  /\ running' = 0
  /\ UNCHANGED <<HALT, CHANNEL, body, files, uploaded>>

(* The agent call returns a summary: the temporary file is created and     *)
(* written, and the upload is started.                                     *)
AgentReturns(e, s, t) ==
  /\ running = e
  /\ pc[e] = "in_agent"
  /\ running' = 0
  /\ LET cs == SetLast(calls[e], "ok", s)
         name == Len(files) + 1
     IN CASE t = "create_err" ->
               /\ EnterExcept(e, Append(cs, Call("tmpfile", <<s>>, 0, "err", "oserror")), "oserror")
               /\ UNCHANGED files
          [] t = "write_err" ->
               /\ EnterExcept(e, Append(cs, Call("tmpfile", <<s>>, name, "err", "oserror")), "oserror")
               /\ files' = Append(files, "-")
          [] OTHER ->
               /\ files' = Append(files, s)
               /\ calls' = [calls EXCEPT ![e] =
                    Append(Append(cs, Call("tmpfile", <<s>>, name, "ok", "-")),
                           Call("files_upload", UploadArgs(CHANNEL), name, "pending", "-"))]
               /\ pc' = [pc EXCEPT ![e] = "uploading"]
  /\ UNCHANGED <<HALT, CHANNEL, body, uploaded>>

Posted(c) ==
  [channels |-> c.msg[1], title |-> c.msg[2], initial_comment |-> c.msg[3],
   file |-> c.file, content |-> files[c.file]]

(* Faulty variant: a failed upload is retried.                           *)
UploadReturn_Retry(e, r) ==
  /\ running = 0
  /\ pc[e] = "uploading"
  /\ LET c == Last(calls[e])
         n == Cardinality({i \in DOMAIN calls[e] : calls[e][i].op = "files_upload"})
     IN IF r = "ok"
          THEN /\ uploaded' = Append(uploaded, Posted(c))
               /\ calls' = [calls EXCEPT ![e] =
                    Append(SetLast(@, "ok", "-"), Call("log_info", InfoLog, 0, "ok", "-"))]
               /\ pc' = [pc EXCEPT ![e] = "returned"]
          ELSE IF n < 2
            THEN /\ calls' = [calls EXCEPT ![e] =
                      Append(SetLast(@, "err", r), [c EXCEPT !.st = "pending"])]
                 /\ UNCHANGED <<uploaded, pc>>
            ELSE /\ EnterExcept(e, SetLast(calls[e], "err", r), r)
                 /\ UNCHANGED uploaded
  /\ UNCHANGED <<HALT, CHANNEL, body, files, running>>

(* Faulty variant: content already posted is not posted again.             *)
UploadReturn_Dedup(e, r) ==
  /\ running = 0
  /\ pc[e] = "uploading"
  /\ LET c == Last(calls[e])
     IN IF r = "ok"
          THEN /\ uploaded' =
                    IF \E i \in DOMAIN uploaded : uploaded[i].content = files[c.file]
                      THEN uploaded
                      ELSE Append(uploaded, Posted(c))
               /\ calls' = [calls EXCEPT ![e] =
                    Append(SetLast(@, "ok", "-"), Call("log_info", InfoLog, 0, "ok", "-"))]
               /\ pc' = [pc EXCEPT ![e] = "returned"]
          ELSE /\ EnterExcept(e, SetLast(calls[e], "err", r), r)
               /\ UNCHANGED uploaded
  /\ UNCHANGED <<HALT, CHANNEL, body, files, running>>

(* files_upload completes.  The with-block closes the file and leaves it   *)
(* on disk (delete=False); then the completion log, or the except-block.   *)
UploadReturn(e, r) ==
  /\ running = 0
  /\ pc[e] = "uploading"
  /\ LET c == Last(calls[e])
     IN IF r = "ok"
          THEN /\ uploaded' = Append(uploaded, Posted(c))
               /\ calls' = [calls EXCEPT ![e] =
                    Append(SetLast(@, "ok", "-"), Call("log_info", InfoLog, 0, "ok", "-"))]
               /\ pc' = [pc EXCEPT ![e] = "returned"]
          ELSE /\ EnterExcept(e, SetLast(calls[e], "err", r), r)
               /\ UNCHANGED uploaded
  /\ UNCHANGED <<HALT, CHANNEL, body, files, running>>

(* The error-message send completes; logger.error runs only if it did not  *)
(* raise, otherwise the exception leaves the handler.                      *)
ErrSayReturn(e, ok) ==
  /\ running = 0
  /\ pc[e] = "err_say"
  /\ LET c == Last(calls[e])
     IN IF ok
          THEN /\ calls' = [calls EXCEPT ![e] =
                    Append(SetLast(@, "ok", "-"),
                           Call("log_error", ErrorLog(c.msg[Len(c.msg)]), 0, "ok", "-"))]
               /\ pc' = [pc EXCEPT ![e] = "returned"]
          ELSE /\ calls' = [calls EXCEPT ![e] = SetLast(@, "err", "-")]
               /\ pc' = [pc EXCEPT ![e] = "raised"]
  /\ UNCHANGED <<HALT, CHANNEL, body, files, uploaded, running>>

(* One step of the task of event e.                                        *)
TaskStep(e) ==
  \/ \E ok \in BOOLEAN : HaltSayReturn(e, ok)
  \/ \E ok \in BOOLEAN : AckSayReturn(e, ok)
  \/ \E d \in AgentErrors : AgentRaises(e, d)
  \/ \E s \in Summaries, t \in TmpOutcomes : AgentReturns(e, s, t)
  \/ \E r \in {"ok"} \cup UploadErrors : UploadReturn(e, r)
  \/ \E ok \in BOOLEAN : ErrSayReturn(e, ok)

Next ==
  \/ \E e \in Events, b \in Bodies : Receive(e, b)
  \/ \E e \in Events, ok \in BOOLEAN : HaltSayReturn(e, ok)
  \/ \E e \in Events, ok \in BOOLEAN : AckSayReturn(e, ok)
  \/ \E e \in Events, d \in AgentErrors : AgentRaises(e, d)
  \/ \E e \in Events, s \in Summaries, t \in TmpOutcomes : AgentReturns(e, s, t)
  \/ \E e \in Events, r \in {"ok"} \cup UploadErrors : UploadReturn(e, r)
  \/ \E e \in Events, ok \in BOOLEAN : ErrSayReturn(e, ok)

Spec == Init /\ [][Next]_vars

(* ------------------------ observations --------------------------------- *)
Idx(e, op) == {i \in DOMAIN calls[e] : calls[e][i].op = op}

Finished(e) == pc[e] \in {"returned", "raised"}

WellFormed(b) == {"text", "user"} \subseteq DOMAIN b.event

Contains(m, x) == \E k \in DOMAIN m : m[k] = x

HaltIdx(e) == {i \in Idx(e, "say") : calls[e][i].msg = HaltMsg}

AckIdx(e) ==
  {i \in Idx(e, "say") : calls[e][i].msg[1] = ":seedling: Working on spec for <@"}

ErrIdx(e) ==
  {i \in Idx(e, "say") : calls[e][i].msg[1] = ":x: Error generating spec: "}

AgentOk(e) == \E i \in Idx(e, "initiate_chat") : calls[e][i].st = "ok"

AgentErr(e) == \E i \in Idx(e, "initiate_chat") : calls[e][i].st = "err"

TmpOk(e) == \E i \in Idx(e, "tmpfile") : calls[e][i].st = "ok"

UploadOk(e) == \E i \in Idx(e, "files_upload") : calls[e][i].st = "ok"

AgentResult(e) == calls[e][CHOOSE i \in Idx(e, "initiate_chat") : TRUE].res

(* An acknowledgment that was sent lies before every agent call of e.      *)
AckBeforeAgent(e) ==
  \A i \in Idx(e, "initiate_chat") :
    \E j \in AckIdx(e) : j < i /\ calls[e][j].st = "ok"

(* --------------------------------- C1 ---------------------------------- *)
(* C1: while the halt flag is set, every handled event issues exactly one  *)
(* call, the send of the fixed halt advisory; no agent call, no temporary  *)
(* file, no upload, no acknowledgment and no error message.                *)
C1_HaltOnlyAdvisory ==
  HALT =>
    /\ files = << >>
    /\ uploaded = << >>
    /\ \A e \in Events :
         pc[e] # "none" =>
           /\ Len(calls[e]) = 1
           /\ calls[e][1].op = "say"
           /\ calls[e][1].msg = HaltMsg

C1_Witness == HALT /\ \E e \in Events : pc[e] = "returned"

(* --------------------------------- C2 ---------------------------------- *)
(* C2 as stated: every event handled with the halt flag clear has exactly  *)
(* one acknowledgment send, naming the user, before its agent call.        *)
C2_Original ==
  ~HALT =>
    \A e \in Events :
      pc[e] # "none" =>
        /\ Cardinality(AckIdx(e)) = 1
        /\ \A i \in AckIdx(e) : Contains(calls[e][i].msg, body[e].event.user)
        /\ AckBeforeAgent(e)

(* C2 amended: with the halt flag clear, an event whose payload carries    *)
(* both text and user has exactly one acknowledgment send, which names the *)
(* user, and the agent is called only after an acknowledgment was sent; an *)
(* event missing a field gets no acknowledgment and no agent call.         *)
C2_AckBeforeAgent ==
  ~HALT =>
    \A e \in Events :
      pc[e] # "none" =>
        IF WellFormed(body[e])
          THEN /\ Cardinality(AckIdx(e)) = 1
               /\ \A i \in AckIdx(e) : Contains(calls[e][i].msg, body[e].event.user)
               /\ AckBeforeAgent(e)
          ELSE calls[e] = << >>

C2_Witness == ~HALT /\ \E e \in Events : pc[e] = "in_agent"

(* --------------------------------- C3 ---------------------------------- *)
(* The one upload of e: to CHANNEL, titled spec.md, with the fixed         *)
(* comment, of a file holding the agent's summary; once it succeeded the   *)
(* sink holds exactly that file, once.                                     *)
UploadAsSpecified(e) ==
  /\ Cardinality(Idx(e, "files_upload")) = 1
  /\ \A i \in Idx(e, "files_upload") :
       LET c == calls[e][i]
       IN /\ c.msg = <<CHANNEL, "spec.md", "Here is the generated spec.md :page_facing_up:">>
          /\ c.file \in DOMAIN files
          /\ files[c.file] = AgentResult(e)
          /\ c.st = "ok" =>
               /\ Cardinality({k \in DOMAIN uploaded : uploaded[k].file = c.file}) = 1
               /\ \A k \in DOMAIN uploaded :
                    uploaded[k].file = c.file =>
                      /\ uploaded[k].content = AgentResult(e)
                      /\ uploaded[k].channels = CHANNEL
                      /\ uploaded[k].title = "spec.md"
                      /\ uploaded[k].initial_comment =
                           "Here is the generated spec.md :page_facing_up:"

(* C3 as stated: every event whose agent call returned a summary has       *)
(* exactly one upload, as specified.                                       *)
C3_Original == \A e \in Events : AgentOk(e) => UploadAsSpecified(e)

(* C3 amended: every event whose agent call returned a summary and whose   *)
(* temporary file was written has exactly one upload, as specified; when   *)
(* the temporary file could not be written there is no upload.             *)
C3_OneUploadOfSummary ==
  \A e \in Events :
    AgentOk(e) =>
      IF TmpOk(e) THEN UploadAsSpecified(e) ELSE Idx(e, "files_upload") = {}

C3_Witness == \E e \in Events : AgentOk(e) /\ UploadOk(e) /\ pc[e] = "returned"

(* --------------------------------- C4 ---------------------------------- *)
(* C4: an event whose agent call raised has no temporary file, no upload   *)
(* and no completion log, and exactly one error-message send, which        *)
(* carries the error's description and follows the acknowledgment.         *)
C4_AgentErrorReported ==
  \A e \in Events :
    AgentErr(e) =>
      /\ Idx(e, "files_upload") = {}
      /\ Idx(e, "tmpfile") = {}
      /\ Idx(e, "log_info") = {}
      /\ Cardinality(ErrIdx(e)) = 1
      /\ \A i \in ErrIdx(e) :
           /\ Contains(calls[e][i].msg, AgentResult(e))
           /\ \E j \in AckIdx(e) : j < i /\ calls[e][j].st = "ok"

C4_Witness == \E e \in Events : AgentErr(e) /\ pc[e] = "returned"

(* --------------------------------- C5 ---------------------------------- *)
(* C5: with the halt flag clear, every finished handler execution has      *)
(* either uploaded its artifact or delivered an error message.             *)
C5_NeverDropped ==
  ~HALT =>
    \A e \in Events :
      Finished(e) =>
        \/ UploadOk(e)
        \/ \E i \in ErrIdx(e) : calls[e][i].st = "ok"

(* --------------------------------- C6 ---------------------------------- *)
(* A failure in steps 1-5: a missing field, or a failed acknowledgment,    *)
(* agent call, temporary write or upload.                                  *)
StepFailed(e) ==
  \/ pc[e] # "none" /\ ~WellFormed(body[e])
  \/ \E i \in AckIdx(e) : calls[e][i].st = "err"
  \/ \E i \in DOMAIN calls[e] :
       calls[e][i].op \in {"initiate_chat", "tmpfile", "files_upload"}
         /\ calls[e][i].st = "err"

(* C6: with the halt flag clear, a finished execution in which a step      *)
(* failed has sent exactly one error message and logged the error, and no  *)
(* execution ends by raising.                                              *)
C6_AllFailuresCaught ==
  ~HALT =>
    \A e \in Events :
      /\ pc[e] # "raised"
      /\ (Finished(e) /\ StepFailed(e)) =>
           /\ Cardinality(ErrIdx(e)) = 1
           /\ Cardinality(Idx(e, "log_error")) = 1

(* --------------------------------- C7 ---------------------------------- *)
(* C7: once a handler execution has finished, no temporary file it created *)
(* is still on disk.                                                       *)
C7_TempReleased ==
  \A e \in Events :
    Finished(e) =>
      \A i \in Idx(e, "tmpfile") :
        calls[e][i].file = 0 \/ calls[e][i].file \notin DOMAIN files

(* --------------------------------- C8 ---------------------------------- *)
(* C8: while one event is inside its agent call, every other event in      *)
(* flight can take its next step and the next mention can be received.     *)
C8_OthersProgress ==
  \A e \in Events, f \in Events :
    (pc[e] = "in_agent" /\ f # e) =>
      /\ pc[f] \in {"halt_say", "ack_say", "uploading", "err_say"}
           => ENABLED TaskStep(f)
      /\ (pc[f] = "none" /\ \A g \in Events : g < f => pc[g] # "none")
           => ENABLED (\E b \in Bodies : Receive(f, b))

(* --------------------------------- C9 ---------------------------------- *)
(* C9: the sink holds one posted file per event whose agent call and       *)
(* upload succeeded, each from its own temporary file.                     *)
C9_NoDedup ==
  /\ Len(uploaded) = Cardinality({e \in Events : AgentOk(e) /\ UploadOk(e)})
  /\ \A i \in DOMAIN uploaded, j \in DOMAIN uploaded :
       i # j => uploaded[i].file # uploaded[j].file

C9_Witness ==
  \E e \in Events, f \in Events :
    /\ e # f
    /\ pc[e] = "returned" /\ pc[f] = "returned"
    /\ body[e] = body[f]
    /\ UploadOk(e) /\ UploadOk(f)
    /\ AgentResult(e) = AgentResult(f)
    /\ Len(uploaded) >= 2

(* --------------------------------- C10 --------------------------------- *)
(* The state of an event as seen from outside.                             *)
EventState(e) ==
  IF HaltIdx(e) # {} THEN "halted"
  ELSE IF Idx(e, "log_info") # {} THEN "succeeded"
  ELSE IF ErrIdx(e) # {} THEN "failed"
  ELSE "pending"

AtMostOnce(e) ==
  /\ Cardinality(Idx(e, "initiate_chat")) <= 1
  /\ Cardinality(Idx(e, "files_upload")) <= 1
  /\ Cardinality(HaltIdx(e)) <= 1
  /\ Cardinality(ErrIdx(e)) <= 1
  /\ Cardinality(Idx(e, "log_info")) <= 1
  /\ ~(Idx(e, "log_info") # {} /\ ErrIdx(e) # {})
  /\ HaltIdx(e) # {} => (Idx(e, "log_info") = {} /\ ErrIdx(e) = {})

(* C10: every step leaves each event with at most one agent call, at most  *)
(* one upload and at most one of halted, succeeded and failed, and an      *)
(* event that is halted, succeeded or failed stays so.                     *)
C10_TerminalStates ==
  [][\A e \in Events :
       /\ AtMostOnce(e)'
       /\ EventState(e) # "pending" => EventState(e)' = EventState(e)]_vars

C10_Witness ==
  \E e \in Events :
    /\ pc[e] = "returned"
    /\ EventState(e) = "failed"
    /\ Idx(e, "files_upload") # {}

====
